---------------------------- MODULE Spec2Model ----------------------------
(***************************************************************************)
(* Endless canvas (src/src/main.rs): the canvas state shared, behind one   *)
(* mutex, by the interactive frame (EndlessCanvasApp::update), the save    *)
(* hook (save_state) and the reminder thread spawned in                    *)
(* EndlessCanvasApp::new, together with the recurrence function            *)
(* get_next_due and the Transformer.                                       *)
(*                                                                         *)
(* Representation.                                                         *)
(*  - Timestamps are integers counting ticks; TicksPerDay ticks make a     *)
(*    day, and day 0 is a Monday.                                          *)
(*  - f32 values are integers, with three values set aside for +inf, -inf  *)
(*    and NaN; zoom is counted in units of 1/ZoomScale.                    *)
(*  - Option<T> is None or a value of T (None is -1 for ids and            *)
(*    timestamps, "" for the path).                                        *)
(***************************************************************************)
EXTENDS Integers, Sequences, FiniteSets, TLC

(***************************************************************************)
(* Bounds of the model.                                                    *)
(***************************************************************************)
MaxNow == 2

MaxId == 2

MaxConnections == 1

MaxGndDue == 4

MaxOffset == 100

MaxEvents == 4

(***************************************************************************)
(* Units and program constants.                                            *)
(***************************************************************************)
TicksPerDay == 2

ZoomScale == 10

ZoomMin == 1

ZoomMax == 100

None == -1

LoopFrequency ==
    {"Once", "Daily", "Weekly", "Monthly", "Yearly", "Sunday", "Monday",
     "Tuesday", "Wednesday", "Thursday", "Friday", "Saturday"}

(***************************************************************************)
(* chrono: Duration::days / Duration::weeks and DateTime::weekday.         *)
(***************************************************************************)
Days(n) == n * TicksPerDay

\* Weekday as chrono numbers it from Monday: Mon = 0 .. Sun = 6.
WeekdayOf(t) == (t \div TicksPerDay) % 7

\* mutant: the weekdays numbered from Sunday
target_weekday_from_sunday(freq) ==
    CASE freq = "Sunday" -> 0
      [] freq = "Monday" -> 1
      [] freq = "Tuesday" -> 2
      [] freq = "Wednesday" -> 3
      [] freq = "Thursday" -> 4
      [] freq = "Friday" -> 5
      [] OTHER -> 6

target_weekday(freq) ==
    CASE freq = "Sunday" -> 6
      [] freq = "Monday" -> 0
      [] freq = "Tuesday" -> 1
      [] freq = "Wednesday" -> 2
      [] freq = "Thursday" -> 3
      [] freq = "Friday" -> 4
      [] OTHER -> 5

(***************************************************************************)
(* get_next_due.  NextWeekday is the inner loop (lines 140-144),           *)
(* NextDueBody one pass of the outer loop's body (lines 118-146), and      *)
(* get_next_due the whole function for the calls the reminder thread       *)
(* makes (never with Once, line 207).                                      *)
(***************************************************************************)
RECURSIVE NextWeekday(_, _)
NextWeekday(next, target) ==
    IF WeekdayOf(next) # target THEN NextWeekday(next + Days(1), target)
    ELSE next

NextDueBody(next_due, freq) ==
    CASE freq = "Once" -> next_due
      [] freq = "Daily" -> next_due + Days(1)
      [] freq = "Weekly" -> next_due + Days(7)
      [] freq = "Monthly" -> next_due + Days(30)
      [] freq = "Yearly" -> next_due + Days(365)
      [] OTHER -> NextWeekday(next_due + Days(1), target_weekday(freq))

RECURSIVE NextDueLoop(_, _, _)
NextDueLoop(next_due, freq, t) ==
    IF next_due <= t THEN NextDueLoop(NextDueBody(next_due, freq), freq, t)
    ELSE next_due

\* mutant: the body runs once instead of until the result is past t
get_next_due_once(current_due, freq, t) == NextDueBody(current_due, freq)

get_next_due(current_due, freq, t) == NextDueLoop(current_due, freq, t)


(***************************************************************************)
(* f32 arithmetic as the canvas uses it.  A finite value is an integer     *)
(* strictly between NegInf and PosInf; a division by a zero zoom gives     *)
(* an infinity or NaN as IEEE 754 does, and both propagate.                *)
(***************************************************************************)
PosInf == 1000000

NegInf == -PosInf

NaN == PosInf + 1

IsFinite(a) == NegInf < a /\ a < PosInf

FNeg(a) ==
    IF a = NaN THEN NaN
    ELSE IF a = PosInf THEN NegInf
    ELSE IF a = NegInf THEN PosInf
    ELSE -a

FAdd(a, b) ==
    IF a = NaN \/ b = NaN THEN NaN
    ELSE IF ~IsFinite(a) /\ ~IsFinite(b) THEN (IF a = b THEN a ELSE NaN)
    ELSE IF ~IsFinite(a) THEN a
    ELSE IF ~IsFinite(b) THEN b
    ELSE a + b

FSub(a, b) == FAdd(a, FNeg(b))

\* a * (num / den) for num >= 0 and den >= 0 not both 0: num / den is a
\* finite ratio when den > 0 and +inf when den = 0.
FMulRatio(a, num, den) ==
    IF a = NaN THEN NaN
    ELSE IF den = 0 THEN
        (IF a = 0 THEN NaN ELSE IF a > 0 THEN PosInf ELSE NegInf)
    ELSE IF ~IsFinite(a) THEN (IF num = 0 THEN NaN ELSE a)
    ELSE (a * num) \div den

\* a / (num / den), the division by a zoom of num / den.
FDivRatio(a, num, den) ==
    IF a = NaN THEN NaN
    ELSE IF num = 0 THEN
        (IF a = 0 THEN NaN ELSE IF a > 0 THEN PosInf ELSE NegInf)
    ELSE IF ~IsFinite(a) THEN a
    ELSE (a * den) \div num

\* egui Pos2 / Vec2: a pair of f32, with componentwise arithmetic.
VAdd(p, q) == <<FAdd(p[1], q[1]), FAdd(p[2], q[2])>>

VSub(p, q) == <<FSub(p[1], q[1]), FSub(p[2], q[2])>>

VMulRatio(p, num, den) ==
    <<FMulRatio(p[1], num, den), FMulRatio(p[2], num, den)>>

VDivRatio(p, num, den) ==
    <<FDivRatio(p[1], num, den), FDivRatio(p[2], num, den)>>

VHalf(p) == VDivRatio(p, 2, 1)

VFinite(p) == IsFinite(p[1]) /\ IsFinite(p[2])

\* f32::clamp(min, max)
clamp(x, lo, hi) == IF x < lo THEN lo ELSE IF x > hi THEN hi ELSE x

(***************************************************************************)
(* Transformer (lines 162-174); t is [offset, zoom], zoom in units of      *)
(* 1/ZoomScale.                                                            *)
(***************************************************************************)
Transformer(off, z) == [offset |-> off, zoom |-> z]

to_screen(t, pos) == VAdd(VMulRatio(pos, t.zoom, ZoomScale), t.offset)

from_screen(t, pos) == VDivRatio(VSub(pos, t.offset), t.zoom, ZoomScale)

(***************************************************************************)
(* Inputs of the interactive frame, drawn from small sets.                 *)
(***************************************************************************)
\* pointer and window positions on screen
PointerChoices == {<<100, 50>>}

\* response.drag_delta(): a drag that brings the origin under the pointer's x
DragChoices == {<<100, 0>>}

\* i.zoom_delta(), as <<numerator, denominator>>; never 1
ZoomDeltaChoices == {<<10, 1>>, <<1, 10>>}

\* the rules picked in the Frequency selector
FreqChoices == {"Once", "Daily", "Friday"}

\* the days picked in the date picker and the times of day of the drag values
DayChoices == {0, 1}

TimeChoices == 0 .. (TicksPerDay - 1)

\* the file picked in the dialog
PathChoices == {"bg.png"}

NoPath == ""

(***************************************************************************)
(* State.                                                                  *)
(***************************************************************************)
VARIABLES
    \* AppState (lines 72-83)
    notes, todos, connections, offset, zoom, next_id, background_image_path,
    connecting_from_id,
    \* the mutex around AppState: "free", "ui" or "sched"
    lock,
    \* the interactive thread: "idle", "update" (in update, lock held),
    \* "picker" (in FileDialog::pick_file), "write" (in save_state's write)
    pcUi,
    \* the Transformer copied at the start of the frame (lines 256-259)
    transformer,
    \* the due widgets in the frame so far (lines 392-420): "none" (no
    \* widget has changed), "applied" (one has, and dc was set) or
    \* "discarded" (one has, and dc was left false)
    dueEdit,
    \* the reminder thread: "sleep", "wait" (in lock()), "scan" (in the for
    \* loop, before the to-do at schedIdx), "notify" (in Notification::show);
    \* schedNow is the now of line 197, schedDue the due_time of line 200 of
    \* the last notification of the scan in progress
    pcSched, schedIdx, schedNow, schedDue,
    \* the wall clock, Local::now()
    now,
    \* the snapshot file: NoFile or <<the serialized state>>
    disk,
    \* the notification collaborator: the id of the to-do last shown
    lastNotified,
    \* history: the ids of the one-shot to-dos a notification was triggered
    \* for, whose due date and done flag the user has not changed since
    fired,
    \* the number of input events the user has made so far
    events,
    \* one call of get_next_due run on its own: "idle", "test" (at the while
    \* condition), "body" (in the loop body), "ret" (returned gNext)
    gPc, gDue, gFreq, gNow, gNext

appVars ==
    <<notes, todos, connections, offset, zoom, next_id,
      background_image_path, connecting_from_id>>

uiVars == <<pcUi, transformer, dueEdit>>

schedVars == <<pcSched, schedIdx, schedNow, schedDue>>

gndVars == <<gPc, gDue, gFreq, gNow, gNext>>

vars ==
    <<appVars, lock, uiVars, schedVars, now, disk, lastNotified, fired,
      events, gndVars>>

\* no snapshot file; a file holding the text j is <<j>>
NoFile == <<>>

NoTransformer == Transformer(<<0, 0>>, 0)

\* AppState::default() (line 72): every field zero, empty or None
DefaultState ==
    [notes |-> <<>>, todos |-> <<>>, connections |-> <<>>,
     offset |-> <<0, 0>>, zoom |-> 0, next_id |-> 0,
     background_image_path |-> NoPath, connecting_from_id |-> None]

\* the current AppState as one record
State ==
    [notes |-> notes, todos |-> todos, connections |-> connections,
     offset |-> offset, zoom |-> zoom, next_id |-> next_id,
     background_image_path |-> background_image_path,
     connecting_from_id |-> connecting_from_id]

\* EndlessCanvasApp::new (lines 177-223) with no snapshot to load: the
\* default state, the reminder thread spawned and asleep.
Init ==
    /\ notes = DefaultState.notes
    /\ todos = DefaultState.todos
    /\ connections = DefaultState.connections
    /\ offset = DefaultState.offset
    /\ zoom = DefaultState.zoom
    /\ next_id = DefaultState.next_id
    /\ background_image_path = DefaultState.background_image_path
    /\ connecting_from_id = DefaultState.connecting_from_id
    /\ lock = "free"
    /\ pcUi = "idle"
    /\ transformer = NoTransformer
    /\ dueEdit = "none"
    /\ pcSched = "sleep"
    /\ schedIdx = 0
    /\ schedNow = 0
    /\ schedDue = None
    /\ now = 0
    /\ disk = NoFile
    /\ lastNotified = None
    /\ fired = {}
    /\ events = 0
    /\ gPc = "idle"
    /\ gDue = 0
    /\ gFreq = "Once"
    /\ gNow = 0
    /\ gNext = 0

\* the wall clock advances on its own
Tick ==
    /\ now < MaxNow
    /\ now' = now + 1
    /\ UNCHANGED <<appVars, lock, uiVars, schedVars, disk, lastNotified,
                   fired, events, gndVars>>

(***************************************************************************)
(* The interactive frame, EndlessCanvasApp::update (lines 254-448).  The   *)
(* frame takes the lock on entry and holds it to its end; between the two  *)
(* it handles the input events of the frame, each one an action below.     *)
(***************************************************************************)
\* what an event of the frame leaves alone
frameRest == <<lock, uiVars, schedVars, now, disk, lastNotified, gndVars>>

\* one more input event of the user (the model stops the user after
\* MaxEvents of them)
Input ==
    /\ events < MaxEvents
    /\ events' = events + 1

\* the ids of the notes and of the to-dos
NoteIds == {notes[i].id : i \in DOMAIN notes}

TodoIds == {todos[i].id : i \in DOMAIN todos}

\* mutant: the frame starts without waiting for the lock
UpdateBeginNoWait ==
    /\ pcUi = "idle"
    /\ lock' = "ui"
    /\ pcUi' = "update"
    /\ transformer' = Transformer(offset, zoom)
    /\ dueEdit' = "none"
    /\ UNCHANGED <<appVars, schedVars, now, disk, lastNotified, fired,
                   events, gndVars>>

\* lines 255-259: lock(), then the frame's copy of offset and zoom
UpdateBegin ==
    /\ pcUi = "idle"
    /\ lock = "free"
    /\ lock' = "ui"
    /\ pcUi' = "update"
    /\ transformer' = Transformer(offset, zoom)
    /\ dueEdit' = "none"
    /\ UNCHANGED <<appVars, schedVars, now, disk, lastNotified, fired,
                   events, gndVars>>

\* lines 273-275: a drag of the canvas pans the view (the model stops
\* panning once a finite offset has reached MaxOffset)
Pan(d) ==
    /\ pcUi = "update"
    /\ Input
    /\ VFinite(offset) => (offset[1] < MaxOffset /\ offset[2] < MaxOffset)
    /\ offset' = VAdd(offset, d)
    /\ UNCHANGED <<notes, todos, connections, zoom, next_id,
                   background_image_path, connecting_from_id, frameRest,
                   fired>>

\* lines 276-278: a click on the empty canvas drops the pending connection
ClickCanvas ==
    /\ pcUi = "update"
    /\ Input
    /\ connecting_from_id # None
    /\ connecting_from_id' = None
    /\ UNCHANGED <<notes, todos, connections, offset, zoom, next_id,
                   background_image_path, frameRest, fired>>

\* lines 279-288: a zoom gesture of factor z[1] / z[2] at hover_pos
ZoomGesture(hover_pos, z) ==
    /\ pcUi = "update"
    /\ Input
    /\ LET oz == zoom
           nz == clamp((zoom * z[1]) \div z[2], ZoomMin, ZoomMax)
       IN  /\ zoom' = nz
           /\ offset' =
                  VSub(hover_pos, VMulRatio(VSub(hover_pos, offset), nz, oz))
    /\ UNCHANGED <<notes, todos, connections, next_id,
                   background_image_path, connecting_from_id, frameRest,
                   fired>>

\* lines 309-324: Add Note at the pointer
AddNote(pointer) ==
    /\ pcUi = "update"
    /\ Input
    /\ next_id < MaxId
    /\ LET np == from_screen(transformer, pointer)
           nid == next_id
       IN  /\ next_id' = next_id + 1
           /\ notes' = Append(notes,
                  [id |-> nid, position |-> np, text |-> "New note",
                   size |-> <<200, 100>>])
    /\ UNCHANGED <<todos, connections, offset, zoom, background_image_path,
                   connecting_from_id, frameRest, fired>>

\* mutant: the to-do takes next_id and the counter is left as it was
AddTodoSameId(pointer) ==
    /\ pcUi = "update"
    /\ Input
    /\ Len(todos) < MaxId
    /\ todos' = Append(todos,
           [id |-> next_id, position |-> from_screen(transformer, pointer),
            text |-> "New todo", due |-> None, is_done |-> FALSE,
            size |-> <<200, 150>>, loop_freq |-> "Once",
            notified |-> FALSE])
    /\ UNCHANGED <<notes, connections, offset, zoom, next_id,
                   background_image_path, connecting_from_id, frameRest,
                   fired>>

\* lines 325-344: Add Todo at the pointer
AddTodo(pointer) ==
    /\ pcUi = "update"
    /\ Input
    /\ next_id < MaxId
    /\ LET np == from_screen(transformer, pointer)
           nid == next_id
       IN  /\ next_id' = next_id + 1
           /\ todos' = Append(todos,
                  [id |-> nid, position |-> np, text |-> "New todo",
                   due |-> None, is_done |-> FALSE, size |-> <<200, 150>>,
                   loop_freq |-> "Once", notified |-> FALSE])
    /\ UNCHANGED <<notes, connections, offset, zoom, background_image_path,
                   connecting_from_id, frameRest, fired>>

\* lines 346-350: Change Background opens the file dialog, which blocks the
\* frame (and keeps the lock) until the user answers
BackgroundOpen ==
    /\ pcUi = "update"
    /\ Input
    /\ pcUi' = "picker"
    /\ UNCHANGED <<appVars, lock, transformer, dueEdit, schedVars, now, disk,
                   lastNotified, fired, gndVars>>

\* lines 347-357: the dialog returns a path (NoPath: cancelled); the path is
\* kept when the image loads
BackgroundReturn(path, loaded) ==
    /\ pcUi = "picker"
    /\ pcUi' = "update"
    /\ background_image_path' =
           IF path # NoPath /\ loaded THEN path ELSE background_image_path
    /\ UNCHANGED <<notes, todos, connections, offset, zoom, next_id,
                   connecting_from_id, lock, transformer, dueEdit,
                   schedVars, now, disk, lastNotified, fired, events,
                   gndVars>>

\* line 371: the note's text is edited
NoteText(i, txt) ==
    /\ pcUi = "update"
    /\ Input
    /\ i \in DOMAIN notes
    /\ notes' = [notes EXCEPT ![i].text = txt]
    /\ UNCHANGED <<todos, connections, offset, zoom, next_id,
                   background_image_path, connecting_from_id, frameRest,
                   fired>>

\* line 388: the checkbox toggles is_done
ToggleDone(i) ==
    /\ pcUi = "update"
    /\ Input
    /\ i \in DOMAIN todos
    /\ todos' = [todos EXCEPT ![i].is_done = ~todos[i].is_done]
    /\ fired' = fired \ {todos[i].id}
    /\ UNCHANGED <<notes, connections, offset, zoom, next_id,
                   background_image_path, connecting_from_id, frameRest>>

\* line 389: the to-do's text is edited
TodoText(i, txt) ==
    /\ pcUi = "update"
    /\ Input
    /\ i \in DOMAIN todos
    /\ todos' = [todos EXCEPT ![i].text = txt]
    /\ UNCHANGED <<notes, connections, offset, zoom, next_id,
                   background_image_path, connecting_from_id, frameRest,
                   fired>>

\* what a change of a due widget leaves alone
dueRest ==
    <<lock, pcUi, transformer, schedVars, now, disk, lastNotified, gndVars>>

\* line 393: the timestamp the due widgets start from
DueOrNow(todo) == IF todo.due = None THEN now ELSE todo.due

\* mutant: the edited timestamp is stored, notified is left as it was
CommitDueOnly(todo, td) == [todo EXCEPT !.due = td]

\* lines 421-424: the edited timestamp is stored and the to-do re-armed
CommitDue(todo, td) == [todo EXCEPT !.due = td, !.notified = FALSE]

\* lines 396-404 and 421-424: the date picker returns day d; single says
\* whether that day at the old time of day is one local time (and_time,
\* and_local_timezone, single)
EditDate(i, d, single) ==
    /\ pcUi = "update"
    /\ Input
    /\ i \in DOMAIN todos
    /\ LET td == DueOrNow(todos[i])
           nt == Days(d) + (td % TicksPerDay)
       IN  IF single
           THEN /\ todos' = [todos EXCEPT ![i] = CommitDue(todos[i], nt)]
                /\ fired' = fired \ {todos[i].id}
                /\ dueEdit' = "applied"
           ELSE /\ UNCHANGED <<todos, fired>>
                /\ dueEdit' = "discarded"
    /\ UNCHANGED <<notes, connections, offset, zoom, next_id,
                   background_image_path, connecting_from_id, dueRest>>

\* mutant: when a conversion fails, dc is set all the same and the old td
\* is stored
EditTimeStoreOnFailure(i, tod, single, tdSingle) ==
    /\ pcUi = "update"
    /\ Input
    /\ i \in DOMAIN todos
    /\ tod # DueOrNow(todos[i]) % TicksPerDay
    /\ LET td == DueOrNow(todos[i])
           nt == IF single /\ tdSingle
                 THEN Days(td \div TicksPerDay) + tod ELSE td
       IN  /\ todos' = [todos EXCEPT ![i] = CommitDue(todos[i], nt)]
           /\ fired' = fired \ {todos[i].id}
           /\ dueEdit' = "applied"
    /\ UNCHANGED <<notes, connections, offset, zoom, next_id,
                   background_image_path, connecting_from_id, dueRest>>

\* lines 405-424: the hour or minute drag value changes, which makes the
\* time of day tod (changed(): tod is not the old time of day).  with_hour
\* and with_minute each convert a local time and fail unless it is a single
\* one: the converted times are the edited one (single says whether it is a
\* single local time) and td's own, for the field left as it was (tdSingle).
\* hr.with_minute(min.minute()) converts the edited local time once more,
\* after the first conversion of it succeeded, so unwrap_or is given Some.
EditTime(i, tod, single, tdSingle) ==
    /\ pcUi = "update"
    /\ Input
    /\ i \in DOMAIN todos
    /\ tod # DueOrNow(todos[i]) % TicksPerDay
    /\ LET td == DueOrNow(todos[i])
           edited == IF single THEN Days(td \div TicksPerDay) + tod ELSE None
           kept == IF tdSingle THEN td ELSE None
           nt == IF edited # None THEN edited ELSE td
       IN  IF edited # None /\ kept # None
           THEN /\ todos' = [todos EXCEPT ![i] = CommitDue(todos[i], nt)]
                /\ fired' = fired \ {todos[i].id}
                /\ dueEdit' = "applied"
           ELSE /\ UNCHANGED <<todos, fired>>
                /\ dueEdit' = "discarded"
    /\ UNCHANGED <<notes, connections, offset, zoom, next_id,
                   background_image_path, connecting_from_id, dueRest>>

\* lines 425-431: the Frequency selector sets the rule
SetFreq(i, f) ==
    /\ pcUi = "update"
    /\ Input
    /\ i \in DOMAIN todos
    /\ todos' = [todos EXCEPT ![i].loop_freq = f]
    /\ UNCHANGED <<notes, connections, offset, zoom, next_id,
                   background_image_path, connecting_from_id, frameRest,
                   fired>>

\* mutant: the test sid != cid of line 440 is left out
LinkClickAny(cid) ==
    /\ pcUi = "update"
    /\ Input
    /\ cid \in NoteIds \cup TodoIds
    /\ IF connecting_from_id # None
       THEN /\ connecting_from_id' = None
            /\ Len(connections) < MaxConnections
            /\ connections' = Append(connections, <<connecting_from_id, cid>>)
       ELSE /\ connecting_from_id' = cid
            /\ UNCHANGED connections
    /\ UNCHANGED <<notes, todos, offset, zoom, next_id,
                   background_image_path, frameRest, fired>>

\* lines 368-370, 385-387 and 438-446: the link button of entity cid
LinkClick(cid) ==
    /\ pcUi = "update"
    /\ Input
    /\ cid \in NoteIds \cup TodoIds
    /\ IF connecting_from_id # None
       THEN LET sid == connecting_from_id
            IN  /\ connecting_from_id' = None
                /\ IF sid # cid
                   THEN /\ Len(connections) < MaxConnections
                        /\ connections' = Append(connections, <<sid, cid>>)
                   ELSE UNCHANGED connections
       ELSE /\ connecting_from_id' = cid
            /\ UNCHANGED connections
    /\ UNCHANGED <<notes, todos, offset, zoom, next_id,
                   background_image_path, frameRest, fired>>

\* lines 373-376 and 433-436: every window shown in the frame gives its
\* entity the position and size of its rectangle, through the frame's
\* transformer
Placed(e, rmin, rsize) ==
    [e EXCEPT !.position = from_screen(transformer, rmin),
              !.size = VDivRatio(rsize, transformer.zoom, ZoomScale)]

\* the end of update: the windows' rectangles are read back, the guard is
\* dropped
UpdateEnd(rmin, rsize) ==
    /\ pcUi = "update"
    /\ notes' = [i \in DOMAIN notes |-> Placed(notes[i], rmin, rsize)]
    /\ todos' = [i \in DOMAIN todos |-> Placed(todos[i], rmin, rsize)]
    /\ lock' = "free"
    /\ pcUi' = "idle"
    /\ transformer' = NoTransformer
    /\ dueEdit' = "none"
    /\ UNCHANGED <<connections, offset, zoom, next_id,
                   background_image_path, connecting_from_id, schedVars, now,
                   disk, lastNotified, fired, events, gndVars>>

(***************************************************************************)
(* Persistence (lines 229-244).  serde_json writes a non-finite f32 as     *)
(* null, and a null does not read back as an f32; connecting_from_id is    *)
(* skipped (line 81).                                                      *)
(***************************************************************************)
JsonNull == NaN + 1

JsonF32(a) == IF IsFinite(a) THEN a ELSE JsonNull

JsonVec(p) == <<JsonF32(p[1]), JsonF32(p[2])>>

JsonEntity(e) ==
    [e EXCEPT !.position = JsonVec(e.position), !.size = JsonVec(e.size)]

\* serde_json::to_string_pretty(&AppState)
Serialize(st) ==
    [notes |-> [i \in DOMAIN st.notes |-> JsonEntity(st.notes[i])],
     todos |-> [i \in DOMAIN st.todos |-> JsonEntity(st.todos[i])],
     connections |-> st.connections,
     offset |-> JsonVec(st.offset),
     zoom |-> JsonF32(st.zoom),
     next_id |-> st.next_id,
     background_image_path |-> st.background_image_path]

\* save_state, line 237: the lock is taken for the serialization, and the
\* guard lives to the end of the if-let, over create_dir_all and write
SaveBegin ==
    /\ pcUi = "idle"
    /\ lock = "free"
    /\ lock' = "ui"
    /\ pcUi' = "write"
    /\ UNCHANGED <<appVars, transformer, dueEdit, schedVars, now, disk,
                   lastNotified, fired, events, gndVars>>

\* lines 238-243: the write ends (written: it succeeded; a failure is
\* ignored), the guard is dropped
SaveEnd(written) ==
    /\ pcUi = "write"
    /\ disk' = IF written THEN <<Serialize(State)>> ELSE disk
    /\ lock' = "free"
    /\ pcUi' = "idle"
    /\ UNCHANGED <<appVars, transformer, dueEdit, schedVars, now,
                   lastNotified, fired, events, gndVars>>

\* serde_json::from_str::<AppState> succeeds on the text j: every f32 of
\* it is a number (a null is not an f32)
ParsesF32(a) == a # JsonNull

ParsesVec(p) == ParsesF32(p[1]) /\ ParsesF32(p[2])

from_str_ok(j) ==
    /\ \A i \in DOMAIN j.notes :
           ParsesVec(j.notes[i].position) /\ ParsesVec(j.notes[i].size)
    /\ \A i \in DOMAIN j.todos :
           ParsesVec(j.todos[i].position) /\ ParsesVec(j.todos[i].size)
    /\ ParsesVec(j.offset)
    /\ ParsesF32(j.zoom)

\* the AppState from_str builds when it succeeds: the fields of the text,
\* and the default for the skipped connecting_from_id (line 81)
from_str(j) ==
    [notes |-> j.notes, todos |-> j.todos, connections |-> j.connections,
     offset |-> j.offset, zoom |-> j.zoom, next_id |-> j.next_id,
     background_image_path |-> j.background_image_path,
     connecting_from_id |-> None]

\* from_disk (lines 229-234) returns Some: the file is read and parses
from_disk_some(file) == file # NoFile /\ from_str_ok(file[1])

\* line 179: from_disk(..).unwrap_or_default()
Loaded(file) ==
    IF from_disk_some(file) THEN from_str(file[1]) ELSE DefaultState

\* the process ends between two frames (its reminder thread with it) and
\* is started again: EndlessCanvasApp::new (lines 177-223) loads the
\* snapshot and spawns the reminder thread
Restart ==
    /\ pcUi = "idle"
    /\ LET st == Loaded(disk)
       IN  /\ notes' = st.notes
           /\ todos' = st.todos
           /\ connections' = st.connections
           /\ offset' = st.offset
           /\ zoom' = st.zoom
           /\ next_id' = st.next_id
           /\ background_image_path' = st.background_image_path
           /\ connecting_from_id' = st.connecting_from_id
    /\ lock' = "free"
    /\ transformer' = NoTransformer
    /\ pcSched' = "sleep"
    /\ schedIdx' = 0
    /\ schedNow' = 0
    /\ schedDue' = None
    /\ lastNotified' = None
    /\ fired' = {}
    /\ UNCHANGED <<pcUi, dueEdit, now, disk, events, gndVars>>

(***************************************************************************)
(* The reminder thread (lines 194-216): sleep, lock, scan the to-dos in    *)
(* order, unlock.                                                          *)
(***************************************************************************)
\* mutant: the comparison of line 201 the wrong way round
ShouldNotifyEarly(todo, t) ==
    /\ ~todo.is_done
    /\ todo.due # None
    /\ t < todo.due
    /\ ~todo.notified

\* mutant: the test of is_done of line 199 is left out
ShouldNotifyDone(todo, t) ==
    /\ todo.due # None
    /\ t > todo.due
    /\ ~todo.notified

\* lines 199-201: the to-do is due and not yet notified at time t
ShouldNotify(todo, t) ==
    /\ ~todo.is_done
    /\ todo.due # None
    /\ t > todo.due
    /\ ~todo.notified

\* mutant: a one-shot to-do is not marked notified
AfterNotifyNoMark(todo, due_time, t) ==
    IF todo.loop_freq = "Once" THEN todo
    ELSE [todo EXCEPT !.due = get_next_due(due_time, todo.loop_freq, t)]

\* mutant: the notified to-do is ticked off as well
AfterNotifyTicked(todo, due_time, t) ==
    IF todo.loop_freq = "Once"
    THEN [todo EXCEPT !.notified = TRUE, !.is_done = TRUE]
    ELSE [todo EXCEPT !.due = get_next_due(due_time, todo.loop_freq, t),
                      !.is_done = TRUE]

\* lines 207-211: what follows the notification; t is the time
\* get_next_due reads
AfterNotify(todo, due_time, t) ==
    IF todo.loop_freq = "Once" THEN [todo EXCEPT !.notified = TRUE]
    ELSE [todo EXCEPT !.due = get_next_due(due_time, todo.loop_freq, t)]

\* line 195: the sleep ends
SchedWake ==
    /\ pcSched = "sleep"
    /\ pcSched' = "wait"
    /\ UNCHANGED <<appVars, lock, uiVars, schedIdx, schedNow, schedDue, now,
                   disk, lastNotified, fired, events, gndVars>>

\* mutant: the scan starts without waiting for the lock
SchedLockNoWait ==
    /\ pcSched = "wait"
    /\ lock' = "sched"
    /\ pcSched' = "scan"
    /\ schedIdx' = 1
    /\ schedNow' = now
    /\ UNCHANGED <<appVars, uiVars, schedDue, now, disk, lastNotified, fired,
                   events, gndVars>>

\* lines 196-198: lock() returns, now is read, the iteration starts
SchedLock ==
    /\ pcSched = "wait"
    /\ lock = "free"
    /\ lock' = "sched"
    /\ pcSched' = "scan"
    /\ schedIdx' = 1
    /\ schedNow' = now
    /\ UNCHANGED <<appVars, uiVars, schedDue, now, disk, lastNotified, fired,
                   events, gndVars>>

\* lines 199-201: the to-do at schedIdx is passed over
ScanSkip ==
    /\ pcSched = "scan"
    /\ schedIdx \in DOMAIN todos
    /\ ~ShouldNotify(todos[schedIdx], schedNow)
    /\ schedIdx' = schedIdx + 1
    /\ UNCHANGED <<appVars, lock, uiVars, pcSched, schedNow, schedDue, now,
                   disk, lastNotified, fired, events, gndVars>>

\* lines 199-206: the to-do at schedIdx is due; show() is called
ScanNotify ==
    /\ pcSched = "scan"
    /\ schedIdx \in DOMAIN todos
    /\ ShouldNotify(todos[schedIdx], schedNow)
    /\ pcSched' = "notify"
    /\ schedDue' = todos[schedIdx].due
    /\ lastNotified' = todos[schedIdx].id
    /\ fired' = IF todos[schedIdx].loop_freq = "Once"
                THEN fired \cup {todos[schedIdx].id} ELSE fired
    /\ UNCHANGED <<appVars, lock, uiVars, schedIdx, schedNow, now, disk,
                   events, gndVars>>

\* lines 206-211: show() returns (its result is dropped); the to-do is
\* marked or moved to its next due time
NotifyReturn ==
    /\ pcSched = "notify"
    /\ todos' = [todos EXCEPT
                     ![schedIdx] = AfterNotify(todos[schedIdx], schedDue, now)]
    /\ pcSched' = "scan"
    /\ schedIdx' = schedIdx + 1
    /\ UNCHANGED <<notes, connections, offset, zoom, next_id,
                   background_image_path, connecting_from_id, lock, uiVars,
                   schedNow, schedDue, now, disk, lastNotified, fired, events,
                   gndVars>>

\* line 215: the iteration is over, the guard is dropped, the thread sleeps
ScanEnd ==
    /\ pcSched = "scan"
    /\ schedIdx \notin DOMAIN todos
    /\ lock' = "free"
    /\ pcSched' = "sleep"
    /\ schedIdx' = 0
    /\ schedDue' = None
    /\ UNCHANGED <<appVars, uiVars, schedNow, now, disk,
                   lastNotified, fired, events, gndVars>>

(***************************************************************************)
(* get_next_due (lines 114-149) step by step, called on its own.           *)
(***************************************************************************)
progVars ==
    <<appVars, lock, uiVars, schedVars, now, disk, lastNotified, fired,
      events>>

\* lines 114-116: the call; t is Local::now()
GndCall(current_due, freq, t) ==
    /\ gPc = "idle"
    /\ gPc' = "test"
    /\ gDue' = current_due
    /\ gFreq' = freq
    /\ gNow' = t
    /\ gNext' = current_due
    /\ UNCHANGED progVars

\* mutant: the loop stops as soon as next_due has reached now
GndTestReached ==
    /\ gPc = "test"
    /\ gPc' = IF gNext < gNow THEN "body" ELSE "ret"
    /\ UNCHANGED <<gDue, gFreq, gNow, gNext, progVars>>

\* mutant: the condition is tested after the first pass only (do-while)
GndTestAfterBody ==
    /\ gPc = "test"
    /\ gPc' = IF gNext <= gNow \/ gNext = gDue THEN "body" ELSE "ret"
    /\ UNCHANGED <<gDue, gFreq, gNow, gNext, progVars>>

\* line 117: the while condition
GndTest ==
    /\ gPc = "test"
    /\ gPc' = IF gNext <= gNow THEN "body" ELSE "ret"
    /\ UNCHANGED <<gDue, gFreq, gNow, gNext, progVars>>

\* lines 118-146: the loop body
GndBody ==
    /\ gPc = "body"
    /\ gNext' = NextDueBody(gNext, gFreq)
    /\ gPc' = "test"
    /\ UNCHANGED <<gDue, gFreq, gNow, progVars>>

\* line 148: the result gNext is handed back
GndReturn ==
    /\ gPc = "ret"
    /\ gPc' = "idle"
    /\ UNCHANGED <<gDue, gFreq, gNow, gNext, progVars>>

(***************************************************************************)
(* Specifications.                                                         *)
(***************************************************************************)
\* the texts typed into a note or a to-do
TextChoices == {"milk"}

RectSizeChoices == {<<200, 100>>}

Frame ==
    \/ UpdateBegin
    \/ \E d \in DragChoices : Pan(d)
    \/ ClickCanvas
    \/ \E h \in PointerChoices, z \in ZoomDeltaChoices : ZoomGesture(h, z)
    \/ \E p \in PointerChoices : AddNote(p)
    \/ \E p \in PointerChoices : AddTodo(p)
    \/ BackgroundOpen
    \/ \E path \in PathChoices \cup {NoPath}, loaded \in BOOLEAN :
           BackgroundReturn(path, loaded)
    \/ \E i \in DOMAIN notes, txt \in TextChoices : NoteText(i, txt)
    \/ \E i \in DOMAIN todos : ToggleDone(i)
    \/ \E i \in DOMAIN todos, txt \in TextChoices : TodoText(i, txt)
    \/ \E i \in DOMAIN todos, d \in DayChoices, single \in BOOLEAN :
           EditDate(i, d, single)
    \/ \E i \in DOMAIN todos, tod \in TimeChoices, single \in BOOLEAN,
          tdSingle \in BOOLEAN : EditTime(i, tod, single, tdSingle)
    \/ \E i \in DOMAIN todos, f \in FreqChoices : SetFreq(i, f)
    \/ \E cid \in 0 .. (MaxId - 1) : LinkClick(cid)
    \/ \E rmin \in PointerChoices, rsize \in RectSizeChoices :
           UpdateEnd(rmin, rsize)

Save ==
    \/ SaveBegin
    \/ \E written \in BOOLEAN : SaveEnd(written)

Scheduler ==
    \/ SchedWake
    \/ SchedLock
    \/ ScanSkip
    \/ ScanNotify
    \/ NotifyReturn
    \/ ScanEnd

Next == Frame \/ Save \/ Scheduler \/ Tick

Spec == Init /\ [][Next]_vars

\* the times get_next_due is called at: the first ticks, and a week, thirty
\* days and a year after tick 0
GndNowChoices == (0 .. MaxNow) \cup {Days(7), Days(30), Days(365)}

GndNext ==
    \/ \E current_due \in 0 .. MaxGndDue, freq \in LoopFrequency,
          t \in GndNowChoices : GndCall(current_due, freq, t)
    \/ GndTest
    \/ GndBody
    \/ GndReturn

SpecGnd == Init /\ [][GndNext]_vars

\* The part of the program the reminders depend on: the reminder thread,
\* the clock, and of the interactive thread every step that takes or gives
\* back the lock and every event that reads or writes a to-do's due, done,
\* rule or notified field.
ReminderFrame ==
    \/ UpdateBegin
    \/ \E p \in PointerChoices : AddTodo(p)
    \/ BackgroundOpen
    \/ \E path \in PathChoices \cup {NoPath}, loaded \in BOOLEAN :
           BackgroundReturn(path, loaded)
    \/ \E i \in DOMAIN todos : ToggleDone(i)
    \/ \E i \in DOMAIN todos, d \in DayChoices, single \in BOOLEAN :
           EditDate(i, d, single)
    \/ \E i \in DOMAIN todos, tod \in TimeChoices, single \in BOOLEAN,
          tdSingle \in BOOLEAN : EditTime(i, tod, single, tdSingle)
    \/ \E i \in DOMAIN todos, f \in FreqChoices : SetFreq(i, f)
    \/ \E rmin \in PointerChoices, rsize \in RectSizeChoices :
           UpdateEnd(rmin, rsize)

ReminderNext == ReminderFrame \/ Save \/ Scheduler \/ Tick

\* The scheduling the liveness claims assume: the reminder thread keeps
\* running, and gets the lock if the lock is free again and again; a frame,
\* the file dialog and a write of the snapshot all end.
Fairness ==
    /\ WF_vars(SchedWake \/ ScanSkip \/ ScanNotify \/ NotifyReturn \/ ScanEnd)
    /\ SF_vars(SchedLock)
    /\ WF_vars(\/ \E rmin \in PointerChoices, rsize \in RectSizeChoices :
                      UpdateEnd(rmin, rsize)
               \/ \E path \in PathChoices \cup {NoPath}, loaded \in BOOLEAN :
                      BackgroundReturn(path, loaded)
               \/ \E written \in BOOLEAN : SaveEnd(written))

FairSpec == Init /\ [][ReminderNext]_vars /\ Fairness

\* the program over several runs of the process
DiskNext == Next \/ Restart

SpecDisk == Init /\ [][DiskNext]_vars

\* get_next_due keeps executing once called
SpecGndFair ==
    Init /\ [][GndNext]_vars /\ WF_vars(GndTest) /\ WF_vars(GndBody)

(***************************************************************************)
(* Properties.                                                             *)
(***************************************************************************)
UiInCritical == pcUi \in {"update", "picker", "write"}

SchedInCritical == pcSched \in {"scan", "notify"}

\* C1: the frame, the save and the scan touch the state only while their
\* thread holds the lock, and never both threads at once.
C1_MutualExclusion ==
    /\ UiInCritical => lock = "ui"
    /\ SchedInCritical => lock = "sched"
    /\ ~(UiInCritical /\ SchedInCritical)

\* the reminder thread is waiting for the lock a frame holds
C1_Witness == pcUi = "update" /\ pcSched = "wait" /\ lock = "ui"

\* a notification is triggered for the to-do at index i in this step
Triggers(i) == pcSched = "scan" /\ schedIdx = i /\ pcSched' = "notify"

\* C2: once a notification has been triggered for a one-shot to-do, no scan
\* triggers another one for it until the user edits its due date or toggles
\* its done flag.
C2_NoSecondNotification ==
    [][\A i \in DOMAIN todos :
          (todos[i].id \in fired /\ todos[i].loop_freq = "Once")
              => ~Triggers(i)]_vars

\* a later scan is at a one-shot to-do that is overdue and was notified
C2_Witness ==
    \E i \in DOMAIN todos :
        /\ todos[i].id \in fired
        /\ todos[i].loop_freq = "Once"
        /\ ~todos[i].is_done
        /\ todos[i].due # None
        /\ pcSched = "scan"
        /\ schedIdx = i
        /\ schedNow > todos[i].due

\* C3: a to-do whose rule is not Once has notified = false.
C3_RecurringNotNotified ==
    \A i \in DOMAIN todos :
        todos[i].loop_freq # "Once" => ~todos[i].notified

\* C4: when the notification of a to-do whose rule is not Once returns, the
\* to-do has notified = false and a due time after the current time.
C4_RecurringRearm ==
    [][(pcSched = "notify" /\ pcSched' = "scan"
            /\ todos[schedIdx].loop_freq # "Once")
          => (/\ ~todos'[schedIdx].notified
              /\ todos'[schedIdx].due # None
              /\ todos'[schedIdx].due > now')]_vars

\* the scan has just notified a recurring to-do and moved it on
C4_Witness ==
    /\ pcSched = "scan"
    /\ schedDue # None
    /\ (schedIdx - 1) \in DOMAIN todos
    /\ lastNotified = todos[schedIdx - 1].id
    /\ todos[schedIdx - 1].loop_freq # "Once"
    /\ ~todos[schedIdx - 1].notified
    /\ todos[schedIdx - 1].due > now
    /\ todos[schedIdx - 1].due > schedDue

\* C5: zoom lies in [0.1, 10.0].
C5_ZoomInRange == ZoomMin <= zoom /\ zoom <= ZoomMax

\* the to-do at index i is not done, overdue and not notified
Eligible(i) ==
    /\ i \in DOMAIN todos
    /\ ~todos[i].is_done
    /\ todos[i].due # None
    /\ todos[i].due < now
    /\ ~todos[i].notified

Notifying(i) == pcSched = "notify" /\ schedIdx = i

\* C6: under fair scheduling a to-do that is not done, overdue and not
\* notified gets a notification, unless the user's edits end that first.
C6_EventualReminder ==
    \A i \in 1 .. MaxId : Eligible(i) ~> (Notifying(i) \/ ~Eligible(i))

\* an overdue to-do's notification is being shown
C6_Witness ==
    /\ pcSched = "notify"
    /\ Eligible(schedIdx)
    /\ schedNow > todos[schedIdx].due

\* C7: get_next_due called with Once returns current_due.
C7_OnceReturnsDue ==
    (gPc = "test" /\ gFreq = "Once") ~> (gPc = "ret" /\ gNext = gDue)

\* the scan of one to-do as a single step: t is the scan's now, u the now
\* get_next_due reads
ScanOne(todo, t, u) ==
    IF ShouldNotify(todo, t) THEN AfterNotify(todo, todo.due, u) ELSE todo

\* C8: every change of a to-do's (due, notified) is one whole due edit of the
\* frame or one whole scan of that to-do applied to the state it finds, so
\* the outcome of a race is that of one of the serial orders.
C8_EditScanAtomic ==
    [][\A i \in DOMAIN todos :
          (/\ i \in DOMAIN todos'
           /\ <<todos'[i].due, todos'[i].notified>>
                  # <<todos[i].due, todos[i].notified>>)
          => \/ /\ pcUi = "update" /\ pcUi' = "update"
                /\ ~todos'[i].notified
                /\ todos'[i].due # None
                /\ pcSched' = pcSched
             \/ /\ pcSched = "notify" /\ pcSched' = "scan" /\ schedIdx = i
                /\ todos'[i] = ScanOne(todos[i], schedNow, now)
                /\ pcUi' = pcUi]_vars

\* the frame edits the due date of a to-do the scan has notified, while the
\* reminder thread waits for the lock
C8_Witness ==
    /\ pcUi = "update"
    /\ pcSched = "wait"
    /\ \E i \in DOMAIN todos :
           /\ lastNotified = todos[i].id
           /\ todos[i].loop_freq = "Once"
           /\ todos[i].id \notin fired
           /\ ~todos[i].notified
           /\ ~todos[i].is_done
           /\ todos[i].due # None
           /\ todos[i].due < now

\* C9: no thread is in a blocking call to an external collaborator while it
\* holds the lock.
C9_NoBlockingCallUnderLock ==
    /\ ~(lock = "sched" /\ pcSched = "notify")
    /\ ~(lock = "ui" /\ pcUi \in {"picker", "write"})

AllIds == [i \in 1 .. (Len(notes) + Len(todos)) |->
              IF i <= Len(notes) THEN notes[i].id
              ELSE todos[i - Len(notes)].id]

\* C10: every id in use is below next_id, no two entities share an id, and
\* next_id never decreases.
C10_IdsUnique ==
    /\ [](\A i \in DOMAIN AllIds : AllIds[i] < next_id)
    /\ [](\A i, j \in DOMAIN AllIds : i # j => AllIds[i] # AllIds[j])
    /\ [][next_id' >= next_id]_vars

\* a note and a to-do have been added
C10_Witness == Len(notes) >= 1 /\ Len(todos) >= 1 /\ next_id >= 2

\* C11: a link gesture with no connection pending makes its entity the
\* pending source and adds no connection; a link gesture on b with a pending
\* appends the one connection (a, b) when a and b differ and none when they
\* are the same, and leaves no pending source either way; no connection
\* (x, x) ever exists.
C11_ConnectionPairing ==
    /\ [](\A k \in DOMAIN connections : connections[k][1] # connections[k][2])
    /\ [][\A cid \in 0 .. (MaxId - 1) :
             LinkClick(cid) =>
                 IF connecting_from_id = None
                 THEN /\ connecting_from_id' = cid
                      /\ connections' = connections
                 ELSE /\ connecting_from_id' = None
                      /\ connections' =
                             IF connecting_from_id # cid
                             THEN Append(connections,
                                         <<connecting_from_id, cid>>)
                             ELSE connections]_vars

\* two link gestures on distinct entities have made one connection
C11_Witness ==
    /\ Len(connections) = 1
    /\ connections[1][1] # connections[1][2]
    /\ {connections[1][1], connections[1][2]} \subseteq NoteIds \cup TodoIds
    /\ connecting_from_id = None

\* the scan is at the to-do at index i, which is not done, overdue at the
\* scan's now and not notified
ScanAtDue(i) ==
    /\ pcSched = "scan"
    /\ schedIdx = i
    /\ ~todos[i].is_done
    /\ todos[i].due # None
    /\ schedNow > todos[i].due
    /\ ~todos[i].notified

\* C12: a due edit the frame applies stores the edited timestamp and sets
\* notified to false whatever it was; and a scan that comes to a to-do that
\* is not done, not notified and overdue, as a notified one-shot to-do is
\* after such an edit to a past time, triggers a notification for it.
C12_DueEditRearms ==
    /\ [][\A i \in DOMAIN todos :
             /\ \A d \in DayChoices :
                    EditDate(i, d, TRUE) =>
                        /\ todos'[i].due =
                               Days(d) + (DueOrNow(todos[i]) % TicksPerDay)
                        /\ ~todos'[i].notified
             /\ \A tod \in TimeChoices :
                    EditTime(i, tod, TRUE, TRUE) =>
                        /\ todos'[i].due =
                               Days(DueOrNow(todos[i]) \div TicksPerDay) + tod
                        /\ ~todos'[i].notified]_vars
    /\ [][\A i \in DOMAIN todos :
             (ScanAtDue(i) /\ <<pcSched, schedIdx>>' # <<pcSched, schedIdx>>)
                 => (pcSched' = "notify" /\ lastNotified' = todos[i].id)]_vars

\* a scan is at a one-shot to-do that was notified and whose due date the
\* user then edited to a time that is past
C12_Witness ==
    \E i \in DOMAIN todos :
        /\ ScanAtDue(i)
        /\ todos[i].loop_freq = "Once"
        /\ lastNotified = todos[i].id
        /\ todos[i].id \notin fired

\* C13: no notification is triggered or shown for a to-do that is done, and
\* no step of a scan changes the due or notified field of a to-do that is
\* done.
C13_DoneNeverScanned ==
    /\ [](pcSched = "notify" => ~todos[schedIdx].is_done)
    /\ [][\A i \in DOMAIN todos :
             todos[i].is_done =>
                 /\ ~Triggers(i)
                 /\ SchedInCritical =>
                        /\ todos'[i].due = todos[i].due
                        /\ todos'[i].notified = todos[i].notified]_vars

\* a scan is at a to-do that is done, overdue and not notified
C13_Witness ==
    \E i \in DOMAIN todos :
        /\ pcSched = "scan"
        /\ schedIdx = i
        /\ todos[i].is_done
        /\ todos[i].due # None
        /\ schedNow > todos[i].due
        /\ ~todos[i].notified

\* the period of the four rules that add a fixed number of days
PeriodRules == {"Daily", "Weekly", "Monthly", "Yearly"}

Period(freq) ==
    CASE freq = "Daily" -> Days(1)
      [] freq = "Weekly" -> Days(7)
      [] freq = "Monthly" -> Days(30)
      [] OTHER -> Days(365)

\* get_next_due has returned from a call with rule freq and current_due at
\* or before now
ReturnedPast(freq) ==
    gPc = "ret" /\ gFreq = freq /\ gDue <= gNow

\* C14: a call of get_next_due with a recurring rule and current_due <= now
\* returns, and what it returns is after now; for Daily, Weekly, Monthly and
\* Yearly it is current_due plus the least positive number of periods that
\* gives a time after now.
C14_RecurrenceMonotone ==
    /\ \A freq \in LoopFrequency \ {"Once"} :
           (gPc = "test" /\ gFreq = freq /\ gDue <= gNow) ~> ReturnedPast(freq)
    /\ [](\A freq \in LoopFrequency \ {"Once"} :
              ReturnedPast(freq) => gNext > gNow)
    /\ [](\A freq \in PeriodRules :
              ReturnedPast(freq) =>
                  \E k \in 1 .. (gNow + 1) :
                      /\ gNext = gDue + k * Period(freq)
                      /\ gDue + (k - 1) * Period(freq) <= gNow)

\* a Weekly call has returned current_due plus two weeks
C14_Witness ==
    /\ ReturnedPast("Weekly")
    /\ gNext = gDue + 2 * Days(7)

\* the day of the week each weekday rule names, numbered from Monday = 0
RuleDay ==
    [Monday |-> 0, Tuesday |-> 1, Wednesday |-> 2, Thursday |-> 3,
     Friday |-> 4, Saturday |-> 5, Sunday |-> 6]

\* t falls on day of the week w and is after now
OnDayAfterNow(t, w) == WeekdayOf(t) = w /\ t > gNow

\* C15: a call of get_next_due with a weekday rule and current_due before
\* now returns a time on the rule's day of the week, after now, that is
\* current_due plus k days for the least k >= 1 that gives such a time.
C15_WeekdayCorrect ==
    \A freq \in DOMAIN RuleDay :
        (gPc = "ret" /\ gFreq = freq /\ gDue < gNow) =>
            /\ OnDayAfterNow(gNext, RuleDay[freq])
            /\ \E k \in 1 .. (gNow \div TicksPerDay + 8) :
                   /\ gNext = gDue + Days(k)
                   /\ \A j \in 1 .. (k - 1) :
                          ~OnDayAfterNow(gDue + Days(j), RuleDay[freq])

\* a Friday call made on the Monday a week after a current_due on a Monday
\* has returned the second Friday
C15_Witness ==
    /\ gPc = "ret"
    /\ gFreq = "Friday"
    /\ gDue < gNow
    /\ WeekdayOf(gDue) = 0
    /\ gNext = gDue + Days(11)

\* C16: a call of get_next_due with current_due after now, whatever the
\* rule, returns, and returns current_due; called again on what it returned
\* it gives the same value.
C16_RecurrenceIdempotent ==
    /\ (gPc = "test" /\ gDue > gNow) ~> (gPc = "ret" /\ gDue > gNow)
    /\ []((gPc = "ret" /\ gDue > gNow) =>
              /\ gNext = gDue
              /\ get_next_due(gNext, gFreq, gNow) = gNext)

\* a call with Once and a current_due after now has returned it
C16_Witness ==
    /\ gPc = "ret"
    /\ gFreq = "Once"
    /\ gDue > gNow
    /\ gNext = gDue

\* |a - b| for finite a and b
FDist(a, b) == IF a >= b THEN a - b ELSE b - a

\* the model computes in whole units: what the truncations of a gesture
\* that ends at zoom nz can move a world point by (one screen unit, which
\* is ZoomScale / nz world units, and one unit for each from_screen)
Tolerance(nz) == ZoomScale \div nz + 2

\* f32 values a and b are equal (==, which no NaN is) or finite and within
\* tol of each other
FSame(a, b, tol) ==
    /\ a # NaN
    /\ b # NaN
    /\ \/ a = b
       \/ IsFinite(a) /\ IsFinite(b) /\ FDist(a, b) <= tol

\* world points a and b are the same point, within tolerance tol
SamePoint(a, b, tol) == FSame(a[1], b[1], tol) /\ FSame(a[2], b[2], tol)

\* C17: a zoom gesture at screen point p leaves the world point under p
\* where it was: from_screen(p) with the offset and zoom before the gesture
\* and from_screen(p) with the offset and zoom after it are the same point.
C17_ZoomPivot ==
    [][\A p \in PointerChoices, z \in ZoomDeltaChoices :
          ZoomGesture(p, z) =>
              SamePoint(from_screen(Transformer(offset, zoom), p),
                        from_screen(Transformer(offset', zoom'), p),
                        Tolerance(zoom'))]_vars

\* the state a load gives back for the state st that was saved
WithoutPending(st) == [st EXCEPT !.connecting_from_id = None]

\* C18: the snapshot a save writes loads as the state that was saved, but
\* for the pending connection source, which is absent after the load; and a
\* start whose load fails begins in the default empty state.
C18_RoundTrip ==
    /\ [][SaveEnd(TRUE) => Loaded(disk') = WithoutPending(State)]_vars
    /\ [][(Restart /\ ~from_disk_some(disk)) => State' = DefaultState]_vars

\* C19: a change of the date picker, the hour or the minute whose new
\* timestamp cannot be built (the conversion of the edited date, or of one
\* of the two times of day, fails) is discarded: the to-do keeps its due,
\* absent if it was absent, and its notified flag.
C19_FailedEditDiscarded ==
    [][\A i \in DOMAIN todos :
          /\ \A d \in DayChoices :
                 EditDate(i, d, FALSE) =>
                     /\ todos'[i].due = todos[i].due
                     /\ todos'[i].notified = todos[i].notified
          /\ \A tod \in TimeChoices, single \in BOOLEAN, tdSingle \in BOOLEAN :
                 (~(single /\ tdSingle) /\ EditTime(i, tod, single, tdSingle))
                     => /\ todos'[i].due = todos[i].due
                        /\ todos'[i].notified = todos[i].notified]_vars

\* a due edit of the only to-do, which is notified, has just been discarded
C19_Witness ==
    /\ dueEdit = "discarded"
    /\ Len(todos) = 1
    /\ todos[1].notified
    /\ todos[1].due # None

\* this step is one of the reminder thread
SchedStep == <<pcSched, schedIdx>>' # <<pcSched, schedIdx>>

\* C20: a step of the reminder thread leaves notes, connections, next_id,
\* offset, zoom, the background path and the pending connection source as
\* they are, keeps the to-dos and their order, and of a to-do changes
\* nothing but due and notified, and these only for the to-do whose
\* notification the scan has just triggered.
C20_ScanFrame ==
    [][SchedStep =>
          /\ UNCHANGED <<notes, connections, next_id, offset, zoom,
                         background_image_path, connecting_from_id>>
          /\ DOMAIN todos' = DOMAIN todos
          /\ \A i \in DOMAIN todos :
                 /\ todos'[i] = [todos[i] EXCEPT !.due = todos'[i].due,
                                                 !.notified = todos'[i].notified]
                 /\ <<todos'[i].due, todos'[i].notified>>
                        # <<todos[i].due, todos[i].notified>>
                    => /\ pcSched = "notify"
                       /\ schedIdx = i
                       /\ lastNotified = todos[i].id]_vars

\* beside a note, the scan has notified the first to-do and marked it, and
\* is at the next one
C20_Witness ==
    /\ Len(notes) >= 1
    /\ Len(todos) >= 1
    /\ pcSched = "scan"
    /\ schedIdx = 2
    /\ schedDue # None
    /\ lastNotified = todos[1].id
    /\ todos[1].notified

=============================================================================
